---- MODULE Spec2Model ----
(***************************************************************************)
(* github_webhook: the builder (webhook / on / listen / handle), the        *)
(* dispatch pipeline handle(), the listener server() and validateSignature *)
(* of mod.ts (and of its later version, unnamed/part_000), as a state      *)
(* machine.                                                                *)
(*                                                                         *)
(* Encoding of JavaScript values:                                          *)
(*   - a string is a sequence of tokens (each token a run of characters);  *)
(*     the empty string is << >>;                                          *)
(*   - a value that may be null / undefined is a sequence of length <= 1:  *)
(*     None is null / undefined, Some(v) is the value v;                   *)
(*   - an array is an object of the heap `arrays`, named by its index;     *)
(*   - a function passed to on() is named by a number; every on() call is  *)
(*     given a function of its own;                                        *)
(*   - a Response is a record; `by` is the identity of the code that       *)
(*     constructed the object: 0 for handle() itself, or the handler.      *)
(***************************************************************************)
EXTENDS Naturals, Sequences, FiniteSets

VARIABLES
  arrays,     \* the heap of Handler[] arrays: arrays[a] is the content of array a
  builders,   \* the builder objects made so far, in order of creation
  created,    \* history: created[b] is the call that made builder b
  calls,      \* the activations of handle() being followed, in order of the calls
  servers,    \* the listeners started by listen(), in order of the calls
  exchanges,  \* the HTTP requests that reached a listener, with their responses
  probe       \* a call of validateSignature on its own: its arguments and result

vars == <<arrays, builders, created, calls, servers, exchanges, probe>>

\* what the builder and the pipeline never touch
outside == <<servers, exchanges, probe>>

----------------------------------------------------------------------------
(* Bounds of the model *)

MaxBuilders == 3
MaxHandlers == 2
\* builders in the runs of the builder API alone
MaxBranching == 4
\* builders in the runs with a listener
MaxListening == 2
\* calls of handle() in progress at once
MaxConcurrent == 2

----------------------------------------------------------------------------
(* JavaScript values *)

None == << >>
Some(v) == <<v>>

\* ToBoolean of a value of type string | null | undefined
Truthy(o) == o # None /\ o[1] # << >>

Str(tok) == <<tok>>

RECURSIVE Flatten(_)
Flatten(ss) == IF ss = << >> THEN << >> ELSE Head(ss) \o Flatten(Tail(ss))

\* the UTF-8 bytes of one token ("U+00E9" is the one character e-acute)
TokenBytes(tok) ==
  CASE tok = "sha256=" -> <<115, 104, 97, 50, 53, 54, 61>>
    [] tok = "0" -> <<48>>
    [] tok = "1" -> <<49>>
    [] tok = "2" -> <<50>>
    [] tok = "3" -> <<51>>
    [] tok = "U+00E9" -> <<195, 169>>
    [] OTHER -> <<63>>

\* new TextEncoder().encode(s)
TextEncode(s) == Flatten([i \in 1..Len(s) |-> TokenBytes(s[i])])

----------------------------------------------------------------------------
(* Inputs *)

EventNames == {Str("push"), Str("star")}

SecretK == Str("k")
SecretJ == Str("j")
Secrets == {None, Some(<< >>), Some(SecretK)}

BodyObject == <<"{", "\"a\":1", "}">>
BodyTruncated == <<"{", "\"a\":1">>
Bodies == {BodyObject, BodyTruncated}

\* a request's body: Some(text), or None when reading it fails (request.text()
\* rejects: the body was already consumed, or its stream errors)
RequestBodies == {Some(b) : b \in Bodies} \cup {None}

----------------------------------------------------------------------------
(* Signature Verifier *)

HexDigits == <<"0", "1", "2", "3">>

SecretIx(secret) == IF secret = SecretK THEN 1 ELSE IF secret = SecretJ THEN 2 ELSE 3
BodyIx(body) == IF body = BodyObject THEN 1 ELSE IF body = BodyTruncated THEN 2 ELSE 3

\* hmac('sha256', secret, body, 'utf8', 'hex'): the hex digest, one digit per
\* input here; distinct (secret, body) pairs have distinct digests
hmac(secret, body) == <<HexDigits[SecretIx(secret)], HexDigits[BodyIx(body)]>>

\* timingSafeEqual(a, b) of std/crypto
timingSafeEqual(a, b) ==
  /\ Len(a) = Len(b)
  /\ \A i \in 1..Len(a) : a[i] = b[i]

\* the digest string validateSignature compares with
ExpectedSignature(secret, body) == <<"sha256=">> \o hmac(secret, body)

\* validateSignature with the content comparison left out: equal lengths pass
validateSignature_LengthOnly(signature, body, secret, event) ==
  LET sig == TextEncode(signature)
      digest == TextEncode(ExpectedSignature(secret, body))
  IN  Len(sig) = Len(digest)

validateSignature(signature, body, secret, event) ==
  LET sig == TextEncode(signature)
      digest == TextEncode(ExpectedSignature(secret, body))
  IN  ~(Len(sig) # Len(digest) \/ ~timingSafeEqual(digest, sig))

\* Comparator that calls timingSafeEqual whatever the lengths are
Comparator_Always(signature, body, secret) ==
  LET sig == TextEncode(signature)
      digest == TextEncode(ExpectedSignature(secret, body))
  IN  IF timingSafeEqual(digest, sig) THEN "true" ELSE "false"

\* what the || of validateSignature's test does with timingSafeEqual: not
\* called when the lengths differ, else its result
Comparator(signature, body, secret) ==
  LET sig == TextEncode(signature)
      digest == TextEncode(ExpectedSignature(secret, body))
  IN  IF Len(sig) # Len(digest) THEN "notcalled"
      ELSE IF timingSafeEqual(digest, sig) THEN "true" ELSE "false"

\* the signature strings validateSignature is tried on: empty, cut short, the
\* digests of every secret and body, one with a two-byte character, one with
\* the digest's characters in another order, one too long
ProbeSignatures ==
  {<< >>, <<"sha256=">>, <<"sha256=", "U+00E9">>, <<"0", "0", "sha256=">>,
   <<"sha256=", "0", "0", "0">>}
    \cup {ExpectedSignature(k, b) : k \in {SecretK, SecretJ}, b \in Bodies}

\* the calls validateSignature(signature, body, secret, event) tried
Probes ==
  [signature : ProbeSignatures, body : Bodies, secret : {SecretK, SecretJ},
   event : EventNames, pc : {"called"}, result : {None}, comparator : {"pending"}]

\* the probed call of validateSignature runs
ValidateSignature ==
  /\ probe # << >>
  /\ probe[1].pc = "called"
  /\ LET q == probe[1]
     IN  probe' = <<[q EXCEPT
           !.pc = "returned",
           !.result = Some(validateSignature(q.signature, q.body, q.secret, q.event)),
           !.comparator = Comparator(q.signature, q.body, q.secret)]>>
  /\ UNCHANGED <<arrays, builders, created, calls, servers, exchanges>>

\* the values of the x-hub-signature-256 header the model sends
Signatures ==
  {None, Some(<< >>), Some(<<"sha256=">>)}
    \cup {Some(ExpectedSignature(SecretK, b)) : b \in Bodies}
    \cup {Some(ExpectedSignature(SecretJ, BodyObject))}

\* the values of the x-github-event header the model sends
EventHeaders == {None, Some(<< >>)} \cup {Some(e) : e \in EventNames}

Requests ==
  [event : EventHeaders, signature : Signatures, body : RequestBodies]

----------------------------------------------------------------------------
(* Header Parser *)

\* headers.get(name): null when the header is not there
parseHeaders(request) ==
  [event |-> request.event, signature |-> request.signature]

----------------------------------------------------------------------------
(* JSON.parse *)

\* the bodies JSON.parse accepts: an object of zero or one member
WellFormed(body) ==
  /\ Len(body) \in {2, 3}
  /\ body[1] = "{"
  /\ body[Len(body)] = "}"
  /\ Len(body) = 3 => body[2] = "\"a\":1"

\* the decoded value: the set of the object's (key, value) pairs
JSONParse(body) == IF Len(body) = 3 THEN {<<"a", 1>>} ELSE {}

----------------------------------------------------------------------------
(* Responses *)

Response(status, by) == [status |-> status, body |-> None, by |-> by]

\* new Response(undefined, { status: 403 }) of handle()
Forbidden == Response(403, 0)
\* new Response(undefined, { status: 500 }) of handle()
InternalError == Response(500, 0)

\* what a handler may return when it returns a Response: its own objects
HandlerResponses(fn) == {Response(200, fn), Response(403, fn)}

----------------------------------------------------------------------------
(* Handler Registry / Builder *)

\* the type Handler
Handler(event, fn) == [event |-> event, handler |-> fn]

\* the object webhookBuilder returns: its methods close over handlers and secret
webhookBuilder(handlers, secret) == [handlers |-> handlers, secret |-> secret]

\* on with handlers.push(...) in place of the spread: the receiver's array is
\* extended and shared with the builder returned
on_InPlace(heap, self, event, fn) ==
  [arrays  |-> [heap EXCEPT ![self.handlers] = Append(@, Handler(event, fn))],
   builder |-> webhookBuilder(self.handlers, self.secret)]

\* on(event, handler) of the builder `self`: the heap and the builder it returns.
\* [...handlers, { event, handler }] is a new array.
on(heap, self, event, fn) ==
  LET copy == Append(heap[self.handlers], Handler(event, fn))
  IN  [arrays  |-> Append(heap, copy),
       builder |-> webhookBuilder(Len(heap) + 1, self.secret)]

\* webhook(secret): a builder over a new empty array
Webhook(secret) ==
  /\ arrays' = Append(arrays, << >>)
  /\ builders' = Append(builders, webhookBuilder(Len(arrays) + 1, secret))
  /\ created' = Append(created, [receiver |-> 0, entry |-> None, secret |-> secret])
  /\ UNCHANGED <<calls, outside>>

\* builders[b].on(event, fn)
On(b, event, fn) ==
  /\ Len(arrays[builders[b].handlers]) < MaxHandlers
  /\ LET r == on(arrays, builders[b], event, fn)
     IN  /\ arrays' = r.arrays
         /\ builders' = Append(builders, r.builder)
         /\ created' = Append(created, [receiver |-> b, entry |-> Some(Handler(event, fn)),
                                         secret |-> None])
  /\ UNCHANGED <<calls, outside>>

----------------------------------------------------------------------------
(* Dispatch Pipeline *)

\* Rejects without the call of validateSignature
Rejects_Unverified(event, signature, body, secret) ==
  \/ ~Truthy(event)
  \/ /\ Truthy(secret)
     /\ ~Truthy(signature)

\* Rejects with the signature demanded whether or not a secret is set
Rejects_SignatureRequired(event, signature, body, secret) ==
  \/ ~Truthy(event)
  \/ ~Truthy(signature)
  \/ /\ Truthy(secret)
     /\ ~validateSignature(signature[1], body, secret[1], event[1])

\* Rejects that takes every defined secret, the empty string too, as set
Rejects_DefinedSecret(event, signature, body, secret) ==
  \/ ~Truthy(event)
  \/ /\ secret # None
     /\ \/ ~Truthy(signature)
        \/ ~validateSignature(signature[1], body, secret[1], event[1])

\* the condition of handle()'s first if: the request is answered 403
Rejects(event, signature, body, secret) ==
  \/ ~Truthy(event)
  \/ /\ Truthy(secret)
     /\ \/ ~Truthy(signature)
        \/ ~validateSignature(signature[1], body, secret[1], event[1])

\* history: what the evaluation of that condition did with validateSignature
\* ("notcalled" when && / || never reached the call)
Verification(event, signature, body, secret) ==
  IF Truthy(event) /\ Truthy(secret) /\ Truthy(signature)
  THEN IF validateSignature(signature[1], body, secret[1], event[1])
       THEN "true" ELSE "false"
  ELSE "notcalled"

\* NextMatch without the test target === event
NextMatch_AnyEvent(hs, event, from) ==
  IF from <= Len(hs) THEN from ELSE 0

\* the first index >= from of an entry of hs the for loop's if lets through
\* (target === event), or 0 when the loop runs off the end
NextMatch(hs, event, from) ==
  LET S == {j \in from..Len(hs) : hs[j].event = event}
  IN  IF S = {} THEN 0 ELSE CHOOSE j \in S : \A k \in S : j <= k

Invocation(j, hs, payload, outcome) ==
  [idx |-> j, entry |-> hs[j], payload |-> payload, outcome |-> outcome]

\* Loop that answers 500 when it runs off the end of the handlers
Loop_EndIsError(c, hs, from, throws) ==
  LET j == NextMatch(hs, c.event[1], from)
  IN  IF j = 0
      THEN [c EXCEPT !.pc = "returned", !.result = Some(InternalError)]
      ELSE IF throws
      THEN [c EXCEPT !.pc = "returned",
                     !.result = Some(InternalError),
                     !.i = j,
                     !.invoked = Append(@, Invocation(j, hs, c.payload, <<"threw">>))]
      ELSE [c EXCEPT !.pc = "awaiting",
                     !.i = j,
                     !.invoked = Append(@, Invocation(j, hs, c.payload, <<"pending">>))]

\* Loop that calls the handler without awaiting it: handle() returns while the
\* handler is still running
Loop_NoAwait(c, hs, from, throws) ==
  LET j == NextMatch(hs, c.event[1], from)
  IN  IF j = 0
      THEN [c EXCEPT !.pc = "returned", !.result = None]
      ELSE IF throws
      THEN [c EXCEPT !.pc = "returned",
                     !.result = Some(InternalError),
                     !.i = j,
                     !.invoked = Append(@, Invocation(j, hs, c.payload, <<"threw">>))]
      ELSE [c EXCEPT !.pc = "returned",
                     !.i = j,
                     !.invoked = Append(@, Invocation(j, hs, c.payload, <<"pending">>))]

\* the for loop of handle() from index `from` up to its next await or return.
\* throws: the handler called here throws before returning anything.
Loop(c, hs, from, throws) ==
  LET j == NextMatch(hs, c.event[1], from)
  IN  IF j = 0
      THEN [c EXCEPT !.pc = "returned", !.result = None]
      ELSE IF throws
      THEN [c EXCEPT !.pc = "returned",
                     !.result = Some(InternalError),
                     !.i = j,
                     !.invoked = Append(@, Invocation(j, hs, c.payload, <<"threw">>))]
      ELSE [c EXCEPT !.pc = "awaiting",
                     !.i = j,
                     !.invoked = Append(@, Invocation(j, hs, c.payload, <<"pending">>))]

\* Dispatch with a JSON.parse that never throws: a body it cannot decode is
\* dispatched with no payload
Dispatch_Unguarded(c, hs, throws) ==
  IF WellFormed(c.body[1])
  THEN Loop([c EXCEPT !.parsed = "ok", !.payload = Some(JSONParse(c.body[1]))],
            hs, 1, throws)
  ELSE Loop([c EXCEPT !.parsed = "threw"], hs, 1, throws)

\* the try block's JSON.parse(body) and what follows it
Dispatch(c, hs, throws) ==
  IF WellFormed(c.body[1])
  THEN Loop([c EXCEPT !.parsed = "ok", !.payload = Some(JSONParse(c.body[1]))],
            hs, 1, throws)
  ELSE [c EXCEPT !.parsed = "threw", !.pc = "returned",
                 !.result = Some(InternalError)]

\* handle() after `await request.text()` gave the body: parseHeaders, the 403
\* check and the try block up to its first await
AfterBody(c, hs, throws) ==
  LET h == parseHeaders(c.request)
      d == [c EXCEPT !.body = c.request.body,
                     !.event = h.event,
                     !.signature = h.signature,
                     !.verified = Verification(h.event, h.signature,
                                               c.request.body[1], c.secret)]
  IN  IF Rejects(h.event, h.signature, c.request.body[1], c.secret)
      THEN [d EXCEPT !.pc = "returned", !.result = Some(Forbidden)]
      ELSE Dispatch(d, hs, throws)

\* what an awaited handler call may settle to: nothing, a Response of its own,
\* or a fault (a rejected promise)
Outcomes(fn) ==
  {<<"void">>, <<"rejected">>} \cup {<<"response", r>> : r \in HandlerResponses(fn)}

\* AfterHandler without `return response`: the loop goes on after a response
AfterHandler_NoShortCircuit(c, hs, outcome, throws) ==
  LET d == [c EXCEPT !.invoked[Len(c.invoked)].outcome = outcome]
  IN  IF outcome = <<"rejected">>
      THEN [d EXCEPT !.pc = "returned", !.result = Some(InternalError)]
      ELSE Loop(d, hs, c.i + 1, throws)

\* AfterHandler with the await outside the try block: a rejected handler call
\* rejects handle()
AfterHandler_FaultEscapes(c, hs, outcome, throws) ==
  LET d == [c EXCEPT !.invoked[Len(c.invoked)].outcome = outcome]
  IN  IF outcome = <<"rejected">>
      THEN [d EXCEPT !.pc = "thrown"]
      ELSE IF outcome = <<"void">>
      THEN Loop(d, hs, c.i + 1, throws)
      ELSE [d EXCEPT !.pc = "returned", !.result = Some(outcome[2])]

\* AfterHandler with the try block inside the loop body: a rejected handler call
\* is swallowed and the loop goes on
AfterHandler_FaultContinues(c, hs, outcome, throws) ==
  LET d == [c EXCEPT !.invoked[Len(c.invoked)].outcome = outcome]
  IN  IF outcome \in {<<"rejected">>, <<"void">>}
      THEN Loop(d, hs, c.i + 1, throws)
      ELSE [d EXCEPT !.pc = "returned", !.result = Some(outcome[2])]

\* handle() when the awaited handler call settles
AfterHandler(c, hs, outcome, throws) ==
  LET d == [c EXCEPT !.invoked[Len(c.invoked)].outcome = outcome]
  IN  IF outcome = <<"rejected">>
      THEN [d EXCEPT !.pc = "returned", !.result = Some(InternalError)]
      ELSE IF outcome = <<"void">>
      THEN Loop(d, hs, c.i + 1, throws)
      ELSE [d EXCEPT !.pc = "returned", !.result = Some(outcome[2])]

\* handle(request, handlers, secret) when it suspends at `await request.text()`
Activation(handlers, secret, request) ==
  [handlers |-> handlers, secret |-> secret,
   request |-> request, pc |-> "reading",
   body |-> None, event |-> None, signature |-> None,
   verified |-> "notcalled", parsed |-> "no", payload |-> None,
   i |-> 0, invoked |-> << >>, result |-> None]

\* builders[b].handle(request): handle() runs up to `await request.text()`.
\* A behaviour follows one request from the call to its end.
Handle(b, request) ==
  /\ calls = << >>
  /\ calls' = Append(calls,
       Activation(builders[b].handlers, builders[b].secret, request))
  /\ UNCHANGED <<arrays, builders, created, outside>>

\* the requests sent while others are in progress
ConcurrentRequests ==
  [event : {Some(e) : e \in EventNames},
   signature : {None} \cup {Some(ExpectedSignature(SecretK, b)) : b \in Bodies},
   body : RequestBodies]

\* builders[b].handle(request) while other calls of it are suspended: server()
\* and the caller of handle() start a call per request
HandleConcurrently(b, request) ==
  /\ Len(calls) < MaxConcurrent
  /\ calls' = Append(calls,
       Activation(builders[b].handlers, builders[b].secret, request))
  /\ UNCHANGED <<arrays, builders, created, outside>>

\* HandlerSettles with the loop position kept in one variable of the module:
\* the loop resumes after the furthest entry any call has reached
HandlerSettles_SharedPosition(n, outcome, throws) ==
  /\ calls[n].pc = "awaiting"
  /\ LET furthest == CHOOSE i \in {calls[m].i : m \in 1..Len(calls)} :
                       \A m \in 1..Len(calls) : calls[m].i <= i
     IN  calls' = [calls EXCEPT ![n] =
           AfterHandler([@ EXCEPT !.i = furthest], arrays[@.handlers], outcome, throws)]
  /\ UNCHANGED <<arrays, builders, created, outside>>

\* request.text() settles: a failed read rejects handle()'s promise (the await
\* is outside the try block), a body resumes handle()
BodyRead(n, throws) ==
  /\ calls[n].pc = "reading"
  /\ calls' = [calls EXCEPT ![n] =
       IF calls[n].request.body = None
       THEN [@ EXCEPT !.pc = "thrown"]
       ELSE AfterBody(@, arrays[@.handlers], throws)]
  /\ UNCHANGED <<arrays, builders, created, outside>>

\* the handler call handle() awaits settles
HandlerSettles(n, outcome, throws) ==
  /\ calls[n].pc = "awaiting"
  /\ calls' = [calls EXCEPT ![n] =
       AfterHandler(@, arrays[@.handlers], outcome, throws)]
  /\ UNCHANGED <<arrays, builders, created, outside>>

----------------------------------------------------------------------------
(* Embedded Listener Adapter *)

\* the two files of the repository that define server(): mod.ts, and the file
\* kept as unnamed/part_000
Modules == {"mod.ts", "part_000"}

Methods == {"POST", "GET"}

\* url.pathname of the requests the model sends (never empty for an http URL)
UrlPaths == {Str("/"), Str("/hook")}

\* the second argument of listen(): None when it is left out
Pathnames == {None, Some(<< >>), Some(Str("/")), Some(Str("/hook"))}

\* the requests the model sends to a listener
ListenerRequests ==
  [event : {None, Some(Str("push"))},
   signature : {None, Some(ExpectedSignature(SecretK, BodyObject))},
   body : RequestBodies]

\* new Response(undefined, { status: 404 }) and { status: 200 } of server()
NotFound == Response(404, 0)
Ok == Response(200, 0)

\* p || '/'
OrRoot(p) == IF p = << >> THEN Str("/") ELSE p

\* the path test of server(): url.pathname === pathname in mod.ts,
\* (url.pathname || '/') === (pathname || '/') in part_000
PathMatches(module, urlpath, pathname) ==
  IF module = "mod.ts"
  THEN urlpath = pathname
  ELSE OrRoot(urlpath) = OrRoot(pathname)

\* the tests of server()'s callback that let a request through to handle()
Routed(sv, method, urlpath) ==
  method = "POST" /\ PathMatches(sv.module, urlpath, sv.pathname)

\* builders[b].listen(port, pathname) of the given file: pathname = '' when the
\* argument is left out. A behaviour starts one listener.
Listen(b, pathname, module) ==
  /\ servers = << >>
  /\ servers' = Append(servers,
       [module |-> module,
        pathname |-> IF pathname = None THEN << >> ELSE pathname[1],
        handlers |-> builders[b].handlers,
        secret |-> builders[b].secret])
  /\ UNCHANGED <<arrays, builders, created, calls, exchanges, probe>>

\* a request reaches listener s: server()'s callback answers 404, or calls
\* handle() and awaits it. A behaviour follows one request.
Arrive(s, method, urlpath, request) ==
  /\ exchanges = << >>
  /\ calls = << >>
  /\ LET sv == servers[s]
         x == [server |-> s, method |-> method, path |-> urlpath,
               request |-> request, call |-> 0, pc |-> "responded",
               response |-> Some(NotFound)]
     IN  IF Routed(sv, method, urlpath)
         THEN /\ calls' = Append(calls, Activation(sv.handlers, sv.secret, request))
              /\ exchanges' = Append(exchanges,
                   [x EXCEPT !.call = Len(calls) + 1, !.pc = "handling",
                             !.response = None])
         ELSE /\ calls' = calls
              /\ exchanges' = Append(exchanges, x)
  /\ UNCHANGED <<arrays, builders, created, servers, probe>>

\* what server()'s callback returns for the result of handle()
Forwarded(result) == IF Truthy(result) THEN result ELSE Some(Ok)

\* Respond that sends nothing when handle() returned no response
Respond_DropsEmpty(x) ==
  /\ exchanges[x].pc = "handling"
  /\ calls[exchanges[x].call].pc \in {"returned", "thrown"}
  /\ LET c == calls[exchanges[x].call]
     IN  exchanges' = [exchanges EXCEPT ![x] =
           IF c.pc = "thrown" \/ ~Truthy(c.result)
           THEN [@ EXCEPT !.pc = "failed"]
           ELSE [@ EXCEPT !.pc = "responded", !.response = c.result]]
  /\ UNCHANGED <<arrays, builders, created, calls, servers, probe>>

\* the handle() call exchange x awaits is over: the callback returns its
\* response, or rejects with what handle() threw
Respond(x) ==
  /\ exchanges[x].pc = "handling"
  /\ calls[exchanges[x].call].pc \in {"returned", "thrown"}
  /\ LET c == calls[exchanges[x].call]
     IN  exchanges' = [exchanges EXCEPT ![x] =
           IF c.pc = "thrown"
           THEN [@ EXCEPT !.pc = "failed"]
           ELSE [@ EXCEPT !.pc = "responded", !.response = Forwarded(c.result)]]
  /\ UNCHANGED <<arrays, builders, created, calls, servers, probe>>

----------------------------------------------------------------------------

Init ==
  /\ arrays = << >>
  /\ builders = << >>
  /\ created = << >>
  /\ calls = << >>
  /\ servers = << >>
  /\ exchanges = << >>
  /\ probe = << >>

\* the function an on() call is given: a new one each time
NewFn == Len(builders) + 1

\* the calls of handle() that await a handler, and the handler call n awaits
Awaiting == {n \in 1..Len(calls) : calls[n].pc = "awaiting"}
Awaited(n) == calls[n].invoked[Len(calls[n].invoked)].entry.handler

\* fewer than max builders exist
Room(max) == Len(builders) < max

Next ==
  \/ \E secret \in Secrets : Room(MaxBuilders) /\ Webhook(secret)
  \/ \E b \in 1..Len(builders), event \in EventNames :
       Room(MaxBuilders) /\ On(b, event, NewFn)
  \/ \E b \in 1..Len(builders), request \in Requests : Handle(b, request)
  \/ \E n \in 1..Len(calls), throws \in BOOLEAN : BodyRead(n, throws)
  \/ \E n \in Awaiting, throws \in BOOLEAN :
       \E outcome \in Outcomes(Awaited(n)) : HandlerSettles(n, outcome, throws)

Spec == Init /\ [][Next]_vars

\* the builder API alone, over more builders
NextBuilder ==
  \/ \E secret \in Secrets : Room(MaxBranching) /\ Webhook(secret)
  \/ \E b \in 1..Len(builders), event \in EventNames :
       Room(MaxBranching) /\ On(b, event, NewFn)

SpecBuilder == Init /\ [][NextBuilder]_vars

\* builders are made, the last one made is told to listen, and one request is
\* sent to the listener
NextListener ==
  \/ \E secret \in {None, Some(SecretK)} :
       servers = << >> /\ Room(MaxListening) /\ Webhook(secret)
  \/ \E b \in 1..Len(builders), event \in EventNames :
       servers = << >> /\ Room(MaxListening) /\ On(b, event, NewFn)
  \/ \E pathname \in Pathnames, module \in Modules :
       builders # << >> /\ Listen(Len(builders), pathname, module)
  \/ \E s \in 1..Len(servers), method \in Methods, urlpath \in UrlPaths,
        request \in ListenerRequests : Arrive(s, method, urlpath, request)
  \/ \E n \in 1..Len(calls), throws \in BOOLEAN : BodyRead(n, throws)
  \/ \E n \in Awaiting, throws \in BOOLEAN :
       \E outcome \in Outcomes(Awaited(n)) : HandlerSettles(n, outcome, throws)
  \/ \E x \in 1..Len(exchanges) : Respond(x)

SpecListener == Init /\ [][NextListener]_vars

\* a listener whose body reads and handler calls settle, and whose callback
\* runs on once the handle() it awaits is over
SpecListenerFair ==
  /\ SpecListener
  /\ WF_vars(\E n \in 1..Len(calls), throws \in BOOLEAN : BodyRead(n, throws))
  /\ WF_vars(\E n \in Awaiting, throws \in BOOLEAN :
               \E outcome \in Outcomes(Awaited(n)) : HandlerSettles(n, outcome, throws))
  /\ WF_vars(\E x \in 1..Len(exchanges) : Respond(x))

\* webhook(secret).on(e1, f).on(e2, g), and requests handled at once by the
\* builder it yields
InitConcurrent ==
  /\ calls = << >> /\ servers = << >> /\ exchanges = << >> /\ probe = << >>
  /\ \E secret \in {None, Some(SecretK)}, e1 \in EventNames, e2 \in EventNames :
       LET b1 == webhookBuilder(1, secret)
           r1 == on(<< << >> >>, b1, e1, 2)
           r2 == on(r1.arrays, r1.builder, e2, 3)
       IN  /\ arrays = r2.arrays
           /\ builders = <<b1, r1.builder, r2.builder>>
           /\ created = <<[receiver |-> 0, entry |-> None, secret |-> secret],
                          [receiver |-> 1, entry |-> Some(Handler(e1, 2)), secret |-> None],
                          [receiver |-> 2, entry |-> Some(Handler(e2, 3)), secret |-> None]>>

NextConcurrent ==
  \/ \E request \in ConcurrentRequests : HandleConcurrently(Len(builders), request)
  \/ \E n \in 1..Len(calls), throws \in BOOLEAN : BodyRead(n, throws)
  \/ \E n \in Awaiting, throws \in BOOLEAN :
       \E outcome \in Outcomes(Awaited(n)) : HandlerSettles(n, outcome, throws)

SpecConcurrent == InitConcurrent /\ [][NextConcurrent]_vars

\* validateSignature on its own, on each of the calls of Probes
InitVerify ==
  /\ arrays = << >> /\ builders = << >> /\ created = << >> /\ calls = << >>
  /\ servers = << >> /\ exchanges = << >>
  /\ \E q \in Probes : probe = <<q>>

NextVerify == ValidateSignature

SpecVerify == InitVerify /\ [][NextVerify]_vars

----------------------------------------------------------------------------
(* Vocabulary of the properties *)

Calls == {calls[n] : n \in 1..Len(calls)}

\* the handler sequence call c iterates
Registry(c) == arrays[c.handlers]

\* the signature header is the digest string of the body under the call's secret
BodyWasRead(c) == c.request.body # None
HasEvent(c) == Truthy(c.request.event)
SignatureMatches(c) ==
  /\ c.request.signature # None
  /\ c.request.signature[1] = ExpectedSignature(c.secret[1], c.request.body[1])

\* the request passes authorization: an event name, and no secret to check
\* against or the right signature
Authorized(c) ==
  /\ BodyWasRead(c)
  /\ HasEvent(c)
  /\ Truthy(c.secret) => SignatureMatches(c)

WellFormedBody(c) == BodyWasRead(c) /\ WellFormed(c.request.body[1])

\* the indices of the registered entries declared for the request's event
Matching(c) ==
  {j \in 1..Len(Registry(c)) : Some(Registry(c)[j].event) = c.request.event}

Faulted(inv) == inv.outcome \in {<<"threw">>, <<"rejected">>}
Responded(inv) == inv.outcome[1] = "response"

----------------------------------------------------------------------------
(* C1 *)

\* the body has been given to JSON.parse, or a handler has been invoked
ParsedOrInvoked(c) == c.parsed # "no" \/ c.invoked # << >>

\* C1, as stated: for every call whose builder has a secret that is not absent
\* (not undefined), JSON.parse runs and a handler is invoked only after
\* validateSignature has returned true for that request.
C1_Original ==
  \A c \in Calls :
    (c.secret # None /\ ParsedOrInvoked(c)) => c.verified = "true"

\* C1, amended: for every call whose builder has a non-empty secret, JSON.parse
\* runs and a handler is invoked only after validateSignature has returned true
\* for that request (the empty string is a secret that is not absent, and it
\* switches verification off).
C1_VerifiedBeforeDispatch ==
  \A c \in Calls :
    (Truthy(c.secret) /\ ParsedOrInvoked(c)) => c.verified = "true"

\* a call under a non-empty secret that was verified, parsed and reached a handler
C1_Witness ==
  \E c \in Calls :
    /\ Truthy(c.secret)
    /\ c.verified = "true"
    /\ c.parsed = "ok"
    /\ c.invoked # << >>

----------------------------------------------------------------------------
(* C2 *)

\* the condition C2 names, on the request as sent: the event name is absent
\* (parseHeaders finds none), or a secret is configured and the signature is
\* absent or is not the digest string of the body
RejectionCondition(c) ==
  \/ ~HasEvent(c)
  \/ /\ Truthy(c.secret)
     /\ \/ ~Truthy(c.request.signature)
        \/ BodyWasRead(c) /\ ~SignatureMatches(c)

RejectedWith403(c) == c.pc = "returned" /\ c.result = Some(Forbidden)

\* C2: once handle() has got past reading the body it has returned its 403
\* response exactly when the event name is absent, or a secret is configured and
\* the signature header is absent or fails verification.
C2_Rejected403Exactly ==
  \A c \in Calls :
    c.pc # "reading" => (RejectedWith403(c) <=> RejectionCondition(c))

\* the same, for the requests whose body could be read
C2_WhenBodyRead ==
  \A c \in Calls :
    (c.pc # "reading" /\ BodyWasRead(c)) =>
      (RejectedWith403(c) <=> RejectionCondition(c))

----------------------------------------------------------------------------
(* C3 *)

Last(seq) == seq[Len(seq)]

\* C3: the handlers a call has invoked are entries of its registry at strictly
\* increasing positions (a subsequence in registration order); a handler that
\* yielded a response is the last one invoked, the call has returned and its
\* result is that response; a result that is a handler's response is the response
\* of the last handler invoked, so at most one is surfaced.
C3_RegistrationOrderShortCircuit ==
  \A c \in Calls :
    LET inv == c.invoked
        hs == Registry(c)
    IN  /\ \A k \in 1..Len(inv) :
             /\ inv[k].idx \in 1..Len(hs)
             /\ inv[k].entry = hs[inv[k].idx]
        /\ \A k \in 1..(Len(inv) - 1) :
             /\ inv[k].idx < inv[k + 1].idx
             /\ ~Responded(inv[k])
        /\ (inv # << >> /\ Responded(Last(inv))) =>
             /\ c.pc = "returned"
             /\ c.result = Some(Last(inv).outcome[2])
        /\ (c.result # None /\ c.result[1].by # 0) =>
             /\ inv # << >>
             /\ Last(inv).outcome = <<"response", c.result[1]>>

\* a call whose first matching handler responded while a later entry matches too
C3_Witness ==
  \E c \in Calls :
    /\ c.pc = "returned"
    /\ Cardinality(Matching(c)) >= 2
    /\ Len(c.invoked) = 1
    /\ Responded(c.invoked[1])
    /\ c.invoked[1].idx = 1
    /\ c.result = Some(c.invoked[1].outcome[2])

----------------------------------------------------------------------------
(* C4 *)

InvokedIndices(c) == {c.invoked[k].idx : k \in 1..Len(c.invoked)}

\* C4: every handler a call invokes is declared for the request's event name;
\* when an authorized call with a well-formed body has returned and none of its
\* handlers faulted, then either a handler responded, it is the first matching
\* handler to do so (every matching entry before it was invoked and returned
\* nothing) and the result is its response, or every matching handler was
\* invoked and returned nothing and the result is absent.
C4_MatchingOnlyFirstResponse ==
  \A c \in Calls :
    LET inv == c.invoked
    IN  /\ \A k \in 1..Len(inv) : Some(inv[k].entry.event) = c.request.event
        /\ ( /\ Authorized(c)
             /\ WellFormedBody(c)
             /\ c.pc = "returned"
             /\ \A k \in 1..Len(inv) : ~Faulted(inv[k]) ) =>
             /\ \A k \in 1..(Len(inv) - 1) : inv[k].outcome = <<"void">>
             /\ IF inv # << >> /\ Responded(Last(inv))
                THEN /\ c.result = Some(Last(inv).outcome[2])
                     /\ InvokedIndices(c) = {j \in Matching(c) : j <= Last(inv).idx}
                ELSE /\ c.result = None
                     /\ InvokedIndices(c) = Matching(c)
                     /\ \A k \in 1..Len(inv) : inv[k].outcome = <<"void">>

\* handlers for push then star, a signed star request: only the star handler
\* ran and its response is the result
C4_Witness ==
  \E c \in Calls :
    /\ Len(Registry(c)) = 2
    /\ Registry(c)[1].event = Str("push")
    /\ Registry(c)[2].event = Str("star")
    /\ c.request.event = Some(Str("star"))
    /\ Truthy(c.secret)
    /\ c.verified = "true"
    /\ c.pc = "returned"
    /\ InvokedIndices(c) = {2}
    /\ Responded(c.invoked[1])
    /\ c.result = Some(c.invoked[1].outcome[2])

----------------------------------------------------------------------------
(* C5 *)

\* C5: a call whose request has an event name, a valid signature (or no secret
\* to check) and a body that is not well-formed JSON returns the 500 response of
\* handle(): it does not throw, is not answered 403, and invokes no handler.
C5_MalformedBodyIs500 ==
  \A c \in Calls :
    (c.pc # "reading" /\ Authorized(c) /\ ~WellFormedBody(c)) =>
      /\ c.pc = "returned"
      /\ c.result = Some(InternalError)
      /\ c.invoked = << >>
      /\ c.parsed = "threw"

\* a correctly signed request with a truncated body and a matching handler
C5_Witness ==
  \E c \in Calls :
    /\ c.verified = "true"
    /\ c.request.body = Some(BodyTruncated)
    /\ Matching(c) # {}
    /\ c.result = Some(InternalError)

----------------------------------------------------------------------------
(* C6 *)

\* C6: when a handler a call invoked raises a fault (it throws, or its promise
\* rejects), the call has returned the 500 response of handle(), the same as for
\* a decode failure; the fault does not reach the caller, and the faulting
\* handler is the last thing the call did (no other response is produced).
C6_HandlerFaultIs500 ==
  \A c \in Calls :
    \A k \in 1..Len(c.invoked) :
      Faulted(c.invoked[k]) =>
        /\ c.pc = "returned"
        /\ c.result = Some(InternalError)
        /\ k = Len(c.invoked)

\* a call whose awaited handler rejected
C6_Witness ==
  \E c \in Calls :
    /\ c.invoked # << >>
    /\ Last(c.invoked).outcome = <<"rejected">>
    /\ c.result = Some(InternalError)

----------------------------------------------------------------------------
(* C7 *)

\* C7: no failure inside handle() reaches its caller: no call ends with a
\* thrown exception or a rejected promise.
C7_NoFailureEscapes ==
  \A c \in Calls : c.pc # "thrown"

----------------------------------------------------------------------------
(* C8 *)

\* C8: with no secret configured (undefined), a call whose request has an event
\* name and a well-formed body is, once the body is read, authorized and
\* dispatched whatever the signature header holds: validateSignature is not
\* called, the result is not the 403 of handle(), the body is decoded, and the
\* first handler matching the event (if any) has been invoked.
C8_NoSecretNoVerification ==
  \A c \in Calls :
    (c.secret = None /\ c.pc # "reading" /\ HasEvent(c) /\ WellFormedBody(c)) =>
      /\ c.verified = "notcalled"
      /\ c.result # Some(Forbidden)
      /\ c.pc # "thrown"
      /\ c.parsed = "ok"
      /\ Matching(c) # {} =>
           /\ c.invoked # << >>
           /\ c.invoked[1].idx = CHOOSE j \in Matching(c) : \A k \in Matching(c) : j <= k

\* no secret, a signature header that fits no body, and the handler was invoked
C8_Witness ==
  \E c \in Calls :
    /\ c.secret = None
    /\ c.request.signature = Some(<<"sha256=">>)
    /\ c.invoked # << >>
    /\ c.pc = "returned"

----------------------------------------------------------------------------
(* C9 *)

\* C9, as stated: a call that has returned and whose request names an event no
\* registered handler matches has returned an absent result, whatever the
\* outcome of authorization (here for the bodies that are well-formed JSON).
C9_Original ==
  \A c \in Calls :
    (c.pc = "returned" /\ HasEvent(c) /\ WellFormedBody(c) /\ Matching(c) = {}) =>
      c.result = None

\* C9, amended: a call for an authorized request with a well-formed body whose
\* event no registered handler matches returns an absent result (without
\* invoking a handler); a request that fails authorization gets the 403 and a
\* body that is not well-formed JSON the 500, matching handler or not.
C9_NoMatchIsAbsent ==
  \A c \in Calls :
    (c.pc # "reading" /\ Authorized(c) /\ WellFormedBody(c) /\ Matching(c) = {}) =>
      /\ c.pc = "returned"
      /\ c.result = None
      /\ c.invoked = << >>

\* a verified star request to a builder that only has a push handler
C9_Witness ==
  \E c \in Calls :
    /\ Registry(c) # << >>
    /\ Matching(c) = {}
    /\ c.verified = "true"
    /\ c.parsed = "ok"
    /\ c.pc = "returned"
    /\ c.result = None

----------------------------------------------------------------------------
(* C10 *)

Builders == 1..Len(builders)

\* the handler sequence and the secret the calls that made builder b give it
RECURSIVE BuiltHandlers(_)
BuiltHandlers(b) ==
  IF created[b].receiver = 0
  THEN << >>
  ELSE Append(BuiltHandlers(created[b].receiver), created[b].entry[1])

RECURSIVE BuiltSecret(_)
BuiltSecret(b) ==
  IF created[b].receiver = 0
  THEN created[b].secret
  ELSE BuiltSecret(created[b].receiver)

\* C10: at all times every builder made so far holds the handler sequence it
\* was made with: the empty one for webhook(secret), and for on(event, handler)
\* the receiver's sequence with the one new entry at its end, under the
\* receiver's secret; so no later on() call changes a builder that exists.
C10_BuildersPersistent ==
  /\ Len(created) = Len(builders)
  /\ \A b \in Builders :
       /\ arrays[builders[b].handlers] = BuiltHandlers(b)
       /\ builders[b].secret = BuiltSecret(b)

\* two builders branched by on() off one builder that has a handler already
C10_Witness ==
  \E p, b1, b2 \in Builders :
    /\ b1 # b2
    /\ created[b1].receiver = p
    /\ created[b2].receiver = p
    /\ created[b1].entry # created[b2].entry
    /\ Len(arrays[builders[p].handlers]) = 1
    /\ Len(arrays[builders[b1].handlers]) = 2
    /\ Len(arrays[builders[b2].handlers]) = 2


----------------------------------------------------------------------------
(* C11 *)

Exchanges == {exchanges[x] : x \in 1..Len(exchanges)}

Server(e) == servers[e.server]

\* the path a listener is configured for, an empty token standing for root
ConfiguredPath(sv) == OrRoot(sv.pathname)

\* the request of exchange e is one the listener must not forward
Unroutable(e) == e.method # "POST" \/ e.path # ConfiguredPath(Server(e))

\* the response the adapter owes exchange e, as a function of method, path and
\* the result of handle()
AdapterResponse(e) ==
  IF Unroutable(e) THEN Some(NotFound)
  ELSE IF Truthy(calls[e.call].result) THEN calls[e.call].result ELSE Some(Ok)

AdapterFunction(e) ==
  IF Unroutable(e)
  THEN e.call = 0 /\ e.pc = "responded" /\ e.response = Some(NotFound)
  ELSE /\ e.call # 0
       /\ e.pc = "responded" =>
            calls[e.call].pc = "returned" /\ e.response = AdapterResponse(e)

\* C11: a request that is not a POST, or whose path is not the configured path,
\* is answered 404 with no body without handle() being called, whatever its
\* headers and body; any other request is passed to handle() and answered
\* with the response handle() returned, or with 200 if it returned none.
C11_AdapterResponseFunction == \A e \in Exchanges : AdapterFunction(e)

\* the same, for the listeners of part_000
C11_InPart000 ==
  \A e \in Exchanges : Server(e).module = "part_000" => AdapterFunction(e)

\* the same for the listeners of mod.ts that were given a non-empty path
C11_WithExplicitPath ==
  \A e \in Exchanges :
    (Server(e).module = "mod.ts" /\ Server(e).pathname # << >>) => AdapterFunction(e)

----------------------------------------------------------------------------
(* C12 *)

\* the listener was started by listen(port), listen(port, '') or listen(port, '/')
RootListener(sv) == sv.pathname \in {<< >>, Str("/")}

ForwardsExactlyPostRoot(e) ==
  e.call # 0 <=> (e.method = "POST" /\ e.path = Str("/"))

\* C12: a listener started with no path, with the empty path or with "/"
\* forwards a request to handle() exactly when it is a POST to "/"; such a
\* request is not answered 404.
C12_EmptyTokenIsRoot ==
  \A e \in Exchanges :
    RootListener(Server(e)) =>
      /\ ForwardsExactlyPostRoot(e)
      /\ e.call # 0 => e.response # Some(NotFound)

\* the same, for the listeners of part_000
C12_InPart000 ==
  \A e \in Exchanges :
    (RootListener(Server(e)) /\ Server(e).module = "part_000") =>
      ForwardsExactlyPostRoot(e)

\* in mod.ts only the listener given "/" takes the POST to "/"
C12_InModTs ==
  \A e \in Exchanges :
    (Server(e).module = "mod.ts" /\ e.method = "POST" /\ e.path = Str("/")) =>
      (e.call # 0 <=> Server(e).pathname = Str("/"))

----------------------------------------------------------------------------
(* C13 *)

\* exchange e is the example's: the listener of webhook(secret).on(E, h)
\* started with the default path, and a POST to root carrying event E and a
\* well-formed body signed with the secret
EndToEnd(e) ==
  LET sv == Server(e)
      hs == arrays[sv.handlers]
  IN  /\ sv.pathname = << >>
      /\ Truthy(sv.secret)
      /\ Len(hs) = 1
      /\ e.method = "POST" /\ e.path = Str("/")
      /\ e.request.event = Some(hs[1].event)
      /\ e.request.body # None /\ WellFormed(e.request.body[1])
      /\ e.request.signature =
           Some(ExpectedSignature(sv.secret[1], e.request.body[1]))

\* the exchange has got its response after h ran once with the decoded body
InvokedOnce(e) ==
  /\ e.call # 0
  /\ LET c == calls[e.call]
     IN  /\ Len(c.invoked) = 1
         /\ c.invoked[1].entry = arrays[Server(e).handlers][1]
         /\ c.invoked[1].payload = Some(JSONParse(e.request.body[1]))
         /\ c.invoked[1].outcome = <<"void">> => e.response = Some(Ok)

\* C13: the example's exchange is answered only after h was invoked exactly
\* once with the decoded payload, and with 200 if h returned nothing.
C13_EndToEnd ==
  \A e \in Exchanges : (EndToEnd(e) /\ e.pc = "responded") => InvokedOnce(e)

\* the same, for the listeners of part_000
C13_InPart000 ==
  \A e \in Exchanges :
    (EndToEnd(e) /\ e.pc = "responded" /\ Server(e).module = "part_000") =>
      InvokedOnce(e)

\* part_000 does answer the example's exchange with 200
C13_Part000Reaches200 ==
  \E e \in Exchanges :
    /\ EndToEnd(e) /\ Server(e).module = "part_000"
    /\ e.pc = "responded" /\ e.response = Some(Ok)
    /\ calls[e.call].invoked[1].outcome = <<"void">>


----------------------------------------------------------------------------
(* C14 *)

\* the calls of validateSignature that have returned
Returned == {probe[k] : k \in {j \in 1..Len(probe) : probe[j].pc = "returned"}}

\* C14: validateSignature(sig, B, S, e) returns true exactly when sig is the
\* string "sha256=" followed by the hex HMAC of B under S, whatever e is; with
\* a body or secret of another MAC the same signature gives false; the empty
\* signature and every other string give false, and the call returns.
C14_TrueIffExpectedSignature ==
  /\ \A q \in Returned :
       /\ q.result \in {Some(TRUE), Some(FALSE)}
       /\ q.result = Some(TRUE) <=> q.signature = ExpectedSignature(q.secret, q.body)
       /\ \A e \in EventNames :
            validateSignature(q.signature, q.body, q.secret, e) = q.result[1]
       /\ \A b \in Bodies, k \in {SecretK, SecretJ} :
            (q.result = Some(TRUE) /\ hmac(k, b) # hmac(q.secret, q.body)) =>
              ~validateSignature(q.signature, b, k, q.event)
       /\ q.signature = << >> => q.result = Some(FALSE)
  /\ \A k \in 1..Len(probe) : probe[k].pc = "called" => ENABLED ValidateSignature

C14_Witness ==
  \E q \in Returned :
    q.result = Some(TRUE) /\ q.secret = SecretJ /\ q.body = BodyTruncated

\* a signature of the right length and the wrong content was refused
C14_WitnessRefused ==
  \E q \in Returned :
    /\ q.result = Some(FALSE)
    /\ q.signature = ExpectedSignature(SecretK, q.body) /\ q.secret = SecretJ

----------------------------------------------------------------------------
(* C18 *)

\* the length of a string in characters
Length(str) ==
  LET chars(tok) == IF tok = "sha256=" THEN 7 ELSE 1
      RECURSIVE sum(_)
      sum(t) == IF t = << >> THEN 0 ELSE chars(Head(t)) + sum(Tail(t))
  IN  sum(str)

EncodedLength(str) == Len(TextEncode(str))

\* C18: a call of validateSignature with a signature whose encoded length is
\* not the length of the expected digest string returns false and has not
\* called timingSafeEqual; timingSafeEqual is called only on equal lengths.
C18_LengthMismatchSkipsComparator ==
  \A q \in Returned :
    LET expected == Length(ExpectedSignature(q.secret, q.body))
    IN  /\ EncodedLength(q.signature) # expected =>
             q.result = Some(FALSE) /\ q.comparator = "notcalled"
        /\ q.comparator # "notcalled" => EncodedLength(q.signature) = expected

\* a non-empty signature of another encoded length was refused unseen
C18_Witness ==
  \E q \in Returned :
    /\ q.signature # << >>
    /\ EncodedLength(q.signature) > Length(ExpectedSignature(q.secret, q.body))
    /\ q.comparator = "notcalled" /\ q.result = Some(FALSE)

\* a signature one character short, but of the digest's encoded length, was
\* compared
C18_WitnessCompared ==
  \E q \in Returned :
    /\ Length(q.signature) < Length(ExpectedSignature(q.secret, q.body))
    /\ q.comparator = "false"


----------------------------------------------------------------------------
(* C15 *)

\* the handlers call c invoked that have not completed
InProgress(c) == {k \in 1..Len(c.invoked) : c.invoked[k].outcome = <<"pending">>}

\* C15: a call of handle() has at most one handler in progress; while one is,
\* it is the last the call invoked, the loop stands at its entry and the call
\* is suspended on it; a call that has returned or failed has none in progress.
C15_HandlersAwaitedInTurn ==
  \A c \in Calls :
    /\ Cardinality(InProgress(c)) <= 1
    /\ \A k \in InProgress(c) :
         k = Len(c.invoked) /\ c.i = c.invoked[k].idx /\ c.pc = "awaiting"
    /\ c.pc = "awaiting" => InProgress(c) # {}
    /\ c.pc \in {"returned", "thrown"} => InProgress(c) = {}

\* a second handler is in progress after the first has completed
C15_Witness ==
  \E c \in Calls :
    /\ Len(c.invoked) = 2
    /\ c.invoked[1].outcome = <<"void">>
    /\ InProgress(c) = {2}

\* a call returned after both its handlers completed
C15_WitnessReturned ==
  \E c \in Calls :
    c.pc = "returned" /\ Len(c.invoked) = 2 /\ c.invoked[2].outcome = <<"void">>

----------------------------------------------------------------------------
(* C19 *)

\* C19: when a handler a call invoked raised a fault, the call invoked exactly
\* the matching entries up to the faulting one and none registered after it;
\* those before it returned nothing, and the call returned 500.
C19_FaultStopsIteration ==
  \A c \in Calls :
    \A k \in 1..Len(c.invoked) :
      Faulted(c.invoked[k]) =>
        /\ InvokedIndices(c) = {j \in Matching(c) : j <= c.invoked[k].idx}
        /\ \A j \in 1..(k - 1) : c.invoked[j].outcome = <<"void">>
        /\ c.pc = "returned" /\ c.result = Some(InternalError)

\* the second matching handler faulted after the first ran to completion
C19_Witness ==
  \E c \in Calls :
    /\ Len(c.invoked) = 2
    /\ c.invoked[1].outcome = <<"void">>
    /\ Faulted(c.invoked[2])
    /\ c.result = Some(InternalError)

\* the first of two matching handlers faulted and the second was not invoked
C19_WitnessNotInvoked ==
  \E c \in Calls :
    /\ Matching(c) = {1, 2}
    /\ Len(c.invoked) = 1 /\ c.invoked[1].outcome = <<"rejected">>
    /\ c.pc = "returned"


----------------------------------------------------------------------------
(* C17 *)

\* what the handlers call c invoked did, in the order of their invocation
Script(c) == [k \in 1..Len(c.invoked) |-> c.invoked[k].outcome]

\* the k-th handler invoked throws before it returns
Throws(script, k) == k <= Len(script) /\ script[k] = <<"threw">>

RECURSIVE Resume(_, _, _)
\* handle() carried on from c with handlers that do what the script says
Resume(c, hs, script) ==
  LET k == Len(c.invoked)
  IN  IF c.pc # "awaiting" \/ k > Len(script) \/ script[k] = <<"pending">>
      THEN c
      ELSE Resume(AfterHandler(c, hs, script[k], Throws(script, k + 1)), hs, script)

\* one request processed on its own by handle(request, handlers, secret), with
\* handlers that do what the script says, as far as the script goes
Alone(handlers, secret, request, script) ==
  LET a == Activation(handlers, secret, request)
      hs == arrays[handlers]
  IN  IF request.body = None
      THEN [a EXCEPT !.pc = "thrown"]
      ELSE Resume(AfterBody(a, hs, Throws(script, 1)), hs, script)

\* C17: a call made with the empty string for secret never calls
\* validateSignature and is, secret aside, in the state the same request with
\* the same handlers reaches with no secret: same result, same handlers
\* invoked with the same payload; with an event name present it is not
\* answered the 403 of handle(), whatever its signature header.
C17_EmptySecretIsNoSecret ==
  \A c \in Calls :
    (c.secret = Some(<< >>) /\ c.pc # "reading") =>
      /\ c.verified = "notcalled"
      /\ [c EXCEPT !.secret = None] = Alone(c.handlers, None, c.request, Script(c))
      /\ (HasEvent(c) /\ BodyWasRead(c)) => c.result # Some(Forbidden)

\* secret "", no signature header, and the handler was invoked
C17_Witness ==
  \E c \in Calls :
    /\ c.secret = Some(<< >>)
    /\ c.request.signature = None
    /\ c.invoked # << >>
    /\ c.pc = "returned"


----------------------------------------------------------------------------
(* C16 *)

\* call c is where its request alone takes handle(): just called, or as far
\* as the handlers it invoked have let it go
AsAlone(c) ==
  IF c.pc = "reading"
  THEN c = Activation(c.handlers, c.secret, c.request)
  ELSE c = Alone(c.handlers, c.secret, c.request, Script(c))

\* C16: with several calls of one builder's handle() in progress at once, in
\* every interleaving of their steps each call has the result and the ordered
\* list of invoked handlers that its own request and its own handlers'
\* outcomes give it when processed alone; the calls share the builder's
\* secret and handler array, which stay as they were built.
C16_ConcurrentAsAlone ==
  /\ \A n \in 1..Len(calls) :
       /\ AsAlone(calls[n])
       /\ calls[n].handlers = builders[Len(builders)].handlers
       /\ calls[n].secret = builders[Len(builders)].secret
  /\ \A b \in 1..Len(builders) :
       /\ Len(arrays[builders[b].handlers]) = b - 1
       /\ \A j \in 1..(b - 1) : arrays[builders[b].handlers][j].handler = j + 1

\* two calls in progress at once, the second further on than the first, and
\* both ended differently
C16_Witness ==
  /\ Len(calls) = 2
  /\ calls[1].pc = "awaiting" /\ Len(calls[1].invoked) = 1
  /\ calls[2].pc = "returned" /\ Len(calls[2].invoked) = 2
  /\ calls[1].request # calls[2].request

\* two calls had a handler in progress at the same time
C16_WitnessOverlap ==
  /\ Len(calls) = 2
  /\ calls[1].pc = "awaiting" /\ calls[2].pc = "awaiting"
  /\ calls[1].i # calls[2].i


----------------------------------------------------------------------------
(* C20 *)

\* the request of the behaviour has arrived and its body can be read
Arrived == Len(exchanges) = 1 /\ exchanges[1].request.body # None

\* handle() has returned 403, 500, a handler's response or nothing
HandleReturned ==
  /\ Len(calls) = 1
  /\ calls[1].pc = "returned"
  /\ \/ calls[1].result \in {None, Some(Forbidden), Some(InternalError)}
     \/ /\ calls[1].invoked # << >>
        /\ Last(calls[1].invoked).outcome = <<"response", calls[1].result[1]>>

\* the listener has sent its response: 200, 403, 404, 500 or a handler's own
ResponseSent ==
  /\ Len(exchanges) = 1
  /\ exchanges[1].pc = "responded"
  /\ exchanges[1].response # None
  /\ \/ exchanges[1].response[1] \in {Response(st, 0) : st \in {200, 403, 404, 500}}
     \/ /\ exchanges[1].call # 0
        /\ calls[1].invoked # << >>
        /\ Last(calls[1].invoked).outcome = <<"response", exchanges[1].response[1]>>

\* a call of handle() that is over, and an exchange that is, stay as they are
TerminalIsFinal ==
  /\ \A n \in 1..Len(calls) :
       calls[n].pc \in {"returned", "thrown"} => calls'[n] = calls[n]
  /\ \A x \in 1..Len(exchanges) :
       exchanges[x].pc \in {"responded", "failed"} => exchanges'[x] = exchanges[x]

\* a call suspended on a handler moves only when that handler settles, and
\* until then its exchange has no response
PendingUntilSettled ==
  \A n \in 1..Len(calls) :
    calls[n].pc = "awaiting" =>
      /\ calls'[n] # calls[n] =>
           \E throws \in BOOLEAN, outcome \in Outcomes(Awaited(n)) :
             HandlerSettles(n, outcome, throws)
      /\ \A x \in 1..Len(exchanges) :
           exchanges[x].call = n =>
             /\ exchanges[x].response = None
             /\ exchanges'[x] = exchanges[x]

\* C20: a request whose body can be read, with handlers that all complete,
\* leads to handle() having returned 403, 500, a handler's response or nothing
\* (when it was called) and to the listener having sent one response; what is
\* over stays as it is; and a call whose handler has not completed stays
\* suspended, its exchange unanswered, no further handler invoked.
C20_OneTerminalOutcome ==
  /\ (Arrived /\ exchanges[1].call # 0) ~> HandleReturned
  /\ Arrived ~> ResponseSent
  /\ [][TerminalIsFinal]_vars
  /\ [][PendingUntilSettled]_vars

\* the listener answered 200 after the handler it awaited returned nothing
C20_Witness ==
  /\ ResponseSent
  /\ exchanges[1].response = Some(Ok)
  /\ calls[1].invoked # << >>
  /\ Last(calls[1].invoked).outcome = <<"void">>

\* the exchange waits on a handler that has not completed
C20_WitnessPending ==
  /\ Len(exchanges) = 1 /\ exchanges[1].pc = "handling"
  /\ calls[1].pc = "awaiting"

====
